---------------------------- MODULE Spec2Model ----------------------------
(***************************************************************************)
(* A model of get_durations.py (cassiavb/Tacotron): resample_timings,      *)
(* match_up, write_transcript / read_transcript,                           *)
(* durations_to_attention_matrix and the batch driver main_work.           *)
(*                                                                         *)
(* Times are counted in half milliseconds, so that the frame shift of      *)
(* 12.5 msec used by main_work is the integer 25 (5.0 msec is 10, 50.0     *)
(* msec is 100).  All the arithmetic of resample_timings is exact on such  *)
(* values, in the floats of the source as well as in the integers here.    *)
(***************************************************************************)
EXTENDS Integers, Sequences, FiniteSets, TLC

VARIABLES
    unit,            \* which function of the module is being run
    \* resample_timings
    lengths, from_rate, to_rate, total_duration, rpc, in_new_rate, rres, rerr,
    \* match_up
    merlin_label, merlin_timings, phoneme_label, m, d, timings, mpc, mres, merr,
    \* durations_to_attention_matrix
    durations, nphones, nframes, A, start, ai, apc,
    \* write_transcript, read_transcript
    texts, file, rtexts, transcript, tpc,
    \* main_work
    labfiles, lab, mel_dctts, mel, todo, labfile, resampled_lengths,
    resampled_lengths_12, guides, outfile_written, main_pc

resampleVars == <<lengths, from_rate, to_rate, total_duration, rpc, in_new_rate,
                  rres, rerr>>
matchVars == <<merlin_label, merlin_timings, phoneme_label, m, d, timings, mpc,
               mres, merr>>

attnVars == <<durations, nphones, nframes, A, start, ai, apc>>

storeVars == <<texts, file, rtexts, transcript, tpc>>

mainVars == <<labfiles, lab, mel_dctts, mel, todo, labfile, resampled_lengths,
              resampled_lengths_12, guides, outfile_written, main_pc>>

vars == <<unit, resampleVars, matchVars, attnVars, storeVars, mainVars>>

(***************************************************************************)
(* Bounds of the model.                                                    *)
(***************************************************************************)
MaxLen == 3       \* longest lengths array given to resample_timings
MaxDur == 6       \* largest duration, in steps of 2.5 msec
MaxTot == 6       \* largest total_duration, in steps of 12.5 msec
MaxSrc == 3       \* longest merlin label sequence given to match_up
MaxTgt == 3       \* longest phoneme label sequence given to match_up
MaxT == 2         \* largest merlin timing, in frames
MaxPhones == 3    \* longest durations array given to durations_to_attention_matrix
MaxPhoneDur == 2  \* largest duration in it, in frames
MaxRecPhones == 2 \* most phones of one transcript record
MaxFiles == 2     \* most label files in label_state_align/
MaxMelDctts == 2  \* most frames of a mel_dctts array (50 msec each)
MaxMel == 4       \* most frames of a mel array (12.5 msec each)

(***************************************************************************)
(* Python values.                                                          *)
(***************************************************************************)
\* An optional number (total_duration) is <<>> for None and <<n>> for n.
None == <<>>
Some(n) == <<n>>

\* What a call has returned so far: nothing yet, None, or an array.
Pending == [kind |-> "pending", value |-> <<>>]
RetNone == [kind |-> "None", value |-> <<>>]
RetArray(a) == [kind |-> "array", value |-> a]

RECURSIVE Sum(_)
Sum(s) == IF Len(s) = 0 THEN 0 ELSE Head(s) + Sum(Tail(s))

SeqsUpTo(S, n) == UNION {[1..k -> S] : k \in 0..n}

Last(s) == s[Len(s)]

(***************************************************************************)
(* resample_timings(lengths, from_rate, to_rate, total_duration)           *)
(***************************************************************************)

\* A divisibility test on the whole utterance instead of on every duration.
AllDivisibleSumOnly(ls, fr) == Sum(ls) % fr = 0

\* remainder = lengths % from_rate; all(x == 0 for x in remainder)
AllDivisible(ls, fr) == \A i \in 1..Len(ls) : ls[i] % fr = 0

\* np.cumsum(lengths)
CumSum(ls) == [k \in 1..Len(ls) |-> Sum(SubSeq(ls, 1, k))]

\* np.arange(0, stop, step) for stop > 0, step > 0: 0, step, 2*step, ... < stop
Arange(stop, step) ==
    [k \in 1..((stop + step - 1) \div step) |-> (k - 1) * step]

\* one entry of cdist on one-dimensional points
Distance(a, b) == IF a >= b THEN a - b ELSE b - a

\* distances.argmin(axis=1) for one row: the first index of a minimal distance
ArgMin(e, grid) ==
    CHOOSE j \in 1..Len(grid) :
        /\ \A k \in 1..Len(grid) : Distance(e, grid[k]) >= Distance(e, grid[j])
        /\ \A k \in 1..(j - 1) : Distance(e, grid[k]) > Distance(e, grid[j])

\* new_valid_positions
NewValidPositions(ls, fr, tr) == Arange(Last(CumSum(ls)) + (fr * 3), tr)

\* in_new_rate = new_valid_positions[distances.argmin(axis=1)]
SnappedEnds(ls, fr, tr) ==
    LET ends == CumSum(ls)
        grid == NewValidPositions(ls, fr, tr)
    IN  [k \in 1..Len(ls) |-> grid[ArgMin(ends[k], grid)]]

\* in_new_rate[1:] -= in_new_rate[:-1].copy()
UndoCumSum(s) == [k \in 1..Len(s) |-> IF k = 1 THEN s[1] ELSE s[k] - s[k - 1]]

\* the value of in_new_rate at line 50, which line 58 returns unchanged when
\* the block of lines 52-56 is not entered
InNewRate(ls, fr, tr) == UndoCumSum(SnappedEnds(ls, fr, tr))

\* `if total_duration:` Python truth of None or of a number
Truthy(td) == td # None /\ td[1] # 0

\* in_new_rate[-1] += diff
AddToLast(s, diff) == [s EXCEPT ![Len(s)] = @ + diff]

\* lines 35-38, and the ends[-1] of line 43 on an empty array
ResampleCheck ==
    /\ unit = "resample_timings"
    /\ rpc = "call"
    /\ IF ~AllDivisible(lengths, from_rate)
         THEN /\ rpc' = "returned"
              /\ rres' = RetNone
              /\ rerr' = rerr
         ELSE IF Len(lengths) = 0
         THEN /\ rpc' = "raised"
              /\ rerr' = "IndexError"
              /\ rres' = rres
         ELSE /\ rpc' = "snap"
              /\ UNCHANGED <<rres, rerr>>
    /\ UNCHANGED <<unit, lengths, from_rate, to_rate, total_duration, in_new_rate>>
    /\ UNCHANGED <<matchVars, attnVars, storeVars, mainVars>>

\* lines 42-50
ResampleSnap ==
    /\ unit = "resample_timings"
    /\ rpc = "snap"
    /\ in_new_rate' = InNewRate(lengths, from_rate, to_rate)
    /\ rpc' = "adjust"
    /\ UNCHANGED <<unit, lengths, from_rate, to_rate, total_duration, rres, rerr>>
    /\ UNCHANGED <<matchVars, attnVars, storeVars, mainVars>>

\* lines 52-58
ResampleAdjust ==
    /\ unit = "resample_timings"
    /\ rpc = "adjust"
    /\ IF Truthy(total_duration)
         THEN LET diff == total_duration[1] - Sum(in_new_rate)
              IN  IF ~(Sum(in_new_rate) <= total_duration[1]) \/ diff % to_rate # 0
                    THEN /\ rpc' = "raised"
                         /\ rerr' = "AssertionError"
                         /\ UNCHANGED <<rres, in_new_rate>>
                    ELSE /\ in_new_rate' = AddToLast(in_new_rate, diff)
                         /\ rres' = RetArray(in_new_rate')
                         /\ rpc' = "returned"
                         /\ rerr' = rerr
         ELSE /\ rres' = RetArray(in_new_rate)
              /\ rpc' = "returned"
              /\ UNCHANGED <<rerr, in_new_rate>>
    /\ UNCHANGED <<unit, lengths, from_rate, to_rate, total_duration>>
    /\ UNCHANGED <<matchVars, attnVars, storeVars, mainVars>>

\* a call that ended in an exception
Raised(exception) == [kind |-> exception, value |-> <<>>]

\* resample_timings as a whole, lines 27-58: what a call returns or raises
ResampleTimings(ls, fr, tr, td) ==
    IF ~AllDivisible(ls, fr) THEN RetNone
    ELSE IF Len(ls) = 0 THEN Raised("IndexError")
    ELSE LET new == InNewRate(ls, fr, tr)
         IN  IF ~Truthy(td) THEN RetArray(new)
             ELSE IF ~(Sum(new) <= td[1]) \/ (td[1] - Sum(new)) % tr # 0
               THEN Raised("AssertionError")
               ELSE RetArray(AddToLast(new, td[1] - Sum(new)))

Durations == {k * 5 : k \in 0..MaxDur}
RatePairs == {<<10, 100>>, <<10, 25>>}
Totals == {None} \cup {Some(k * 25) : k \in 0..MaxTot}

\* the state of resample_timings while another function is run
IdleResample ==
    /\ lengths = <<>>
    /\ from_rate = 10
    /\ to_rate = 100
    /\ total_duration = None
    /\ rpc = "idle"
    /\ in_new_rate = <<>>
    /\ rres = Pending
    /\ rerr = ""

\* the state of match_up while another function is run
IdleMatch ==
    /\ merlin_label = <<>>
    /\ merlin_timings = <<>>
    /\ phoneme_label = <<>>
    /\ m = 0
    /\ d = 0
    /\ timings = <<>>
    /\ mpc = "idle"
    /\ mres = Pending
    /\ merr = <<>>

\* the state of durations_to_attention_matrix while another function is run
IdleAttn ==
    /\ durations = <<>>
    /\ nphones = 0
    /\ nframes = 0
    /\ A = <<>>
    /\ start = 0
    /\ ai = 0
    /\ apc = "idle"

\* the state of the transcript functions while another function is run
IdleStore ==
    /\ texts = <<>>
    /\ file = <<>>
    /\ rtexts = <<>>
    /\ transcript = <<>>
    /\ tpc = "idle"

\* the state of main_work while a function is run on its own
IdleMain ==
    /\ labfiles = {}
    /\ lab = <<>>
    /\ mel_dctts = <<>>
    /\ mel = <<>>
    /\ todo = {}
    /\ labfile = 0
    /\ resampled_lengths = Pending
    /\ resampled_lengths_12 = Pending
    /\ guides = {}
    /\ outfile_written = FALSE
    /\ main_pc = "idle"

InitResample ==
    /\ unit = "resample_timings"
    /\ IdleMatch
    /\ IdleAttn
    /\ IdleStore
    /\ IdleMain
    /\ lengths \in SeqsUpTo(Durations, MaxLen)
    /\ \E rp \in RatePairs : from_rate = rp[1] /\ to_rate = rp[2]
    /\ total_duration \in Totals
    /\ rpc = "call"
    /\ in_new_rate = <<>>
    /\ rres = Pending
    /\ rerr = ""

NextResample == ResampleCheck \/ ResampleSnap \/ ResampleAdjust

SpecResample == InitResample /\ [][NextResample]_vars

(***************************************************************************)
(* Claims about resample_timings.                                          *)
(***************************************************************************)

ResampleEnded == unit = "resample_timings" /\ rpc \in {"returned", "raised"}

\* the multiple of tr nearest to e, the smaller one when two are equidistant
NearestMultiple(e, tr) ==
    LET lo == (e \div tr) * tr
    IN  IF e - lo <= (lo + tr) - e THEN lo ELSE lo + tr

\* Supporting lemma: the steps of the call and resample_timings as a whole
\* agree.
ResampleStepsAgree ==
    ResampleEnded
    => LET whole == ResampleTimings(lengths, from_rate, to_rate, total_duration)
       IN  IF rpc = "returned" THEN rres = whole ELSE whole = Raised(rerr)

\* C1: called with a total_duration on durations all divisible by from_rate,
\* whenever resample_timings returns an array its sum is total_duration and
\* it differs from the array returned without total_duration in its last
\* element only.
C1_SumEqualsTarget ==
    (/\ unit = "resample_timings"
     /\ rpc = "returned"
     /\ total_duration # None
     /\ rres.kind = "array")
    => /\ Sum(rres.value) = total_duration[1]
       /\ Len(rres.value) = Len(lengths)
       /\ \A k \in 1..(Len(lengths) - 1) :
              rres.value[k] = InNewRate(lengths, from_rate, to_rate)[k]

\* Supporting lemma: the same statement for a total_duration other than 0,
\* the totals for which line 52 enters the block of lines 53-56.
SumEqualsNonZeroTarget ==
    (/\ unit = "resample_timings"
     /\ rpc = "returned"
     /\ Truthy(total_duration)
     /\ rres.kind = "array")
    => /\ Sum(rres.value) = total_duration[1]
       /\ Len(rres.value) = Len(lengths)
       /\ \A k \in 1..(Len(lengths) - 1) :
              rres.value[k] = InNewRate(lengths, from_rate, to_rate)[k]

\* C4: resample_timings returns None, with no exception and nothing
\* computed, exactly when some duration is not divisible by from_rate.
C4_NoneIffNotDivisible ==
    ResampleEnded
    => /\ (rres = RetNone) <=> (\E i \in 1..Len(lengths) : lengths[i] % from_rate # 0)
       /\ (rres = RetNone) => (rpc = "returned" /\ rerr = "" /\ in_new_rate = <<>>)

\* C4's case: the sum is divisible by from_rate, one duration is not, and
\* the call has returned None.
C4_Witness ==
    /\ ResampleEnded
    /\ rres = RetNone
    /\ Len(lengths) = 2
    /\ Sum(lengths) % from_rate = 0

\* C8: with a total_duration supplied (0 included), a reconstructed total
\* above it, or a shortfall that is no multiple of to_rate, ends the call in
\* an AssertionError and no array is returned.
C8_FatalOnBadTotal ==
    (/\ ResampleEnded
     /\ total_duration # None
     /\ Len(lengths) > 0
     /\ AllDivisible(lengths, from_rate)
     /\ LET total == Sum(InNewRate(lengths, from_rate, to_rate))
        IN  \/ total > total_duration[1]
            \/ (total_duration[1] - total) % to_rate # 0)
    => /\ rpc = "raised"
       /\ rerr = "AssertionError"
       /\ rres.kind # "array"

\* C9: without total_duration, on durations all divisible by from_rate, the
\* k-th prefix sum of the result is the multiple of to_rate nearest to the
\* k-th cumulative end point (the smaller of two equidistant ones), so the
\* sum of the result is within to_rate/2 of the sum of the input.
C9_NearestMultiple ==
    (/\ unit = "resample_timings"
     /\ rpc = "returned"
     /\ total_duration = None
     /\ rres.kind = "array")
    => /\ \A k \in 1..Len(lengths) :
              CumSum(rres.value)[k] = NearestMultiple(CumSum(lengths)[k], to_rate)
       /\ 2 * Distance(Sum(rres.value), Sum(lengths)) <= to_rate

\* Supporting lemma: every prefix sum of the result is the nearest point of
\* the grid 0, to_rate, ... that stops short of ends[-1] + 3*from_rate.
NearestGridPoint ==
    (/\ unit = "resample_timings"
     /\ rpc = "returned"
     /\ total_duration = None
     /\ rres.kind = "array")
    => LET grid == NewValidPositions(lengths, from_rate, to_rate)
       IN  \A k \in 1..Len(lengths) :
             /\ \E j \in 1..Len(grid) : CumSum(rres.value)[k] = grid[j]
             /\ \A j \in 1..Len(grid) :
                   Distance(CumSum(lengths)[k], CumSum(rres.value)[k])
                     <= Distance(CumSum(lengths)[k], grid[j])

(***************************************************************************)
(* match_up((merlin_label, merlin_timings), phoneme_label)                 *)
(*                                                                         *)
(* A merlin label is a string; a phoneme label is the sequence of its      *)
(* characters, of which match_up reads the first.  m and d count the       *)
(* labels consumed, so the current labels are merlin_label[m + 1] and      *)
(* phoneme_label[d + 1].                                                   *)
(***************************************************************************)

merlin_silence_symbols == {"pau", "sil", "skip"}

\* str.startswith with a one-character prefix
StartsWith(label, ch) == Len(label) > 0 /\ label[1] = ch

\* A walk that takes a merlin label with every phoneme label.
MatchBranchNoInsertion(ml, pl) ==
    IF ml \in merlin_silence_symbols
      THEN IF StartsWith(pl, "<") THEN "both" ELSE "assert"
      ELSE "both"

\* the branch of lines 70-82 taken on the current labels: the assertion of
\* line 71 fails, a zero is inserted (77-78), or both cursors advance
MatchBranch(ml, pl) ==
    IF ml \in merlin_silence_symbols
      THEN IF StartsWith(pl, "<") THEN "both" ELSE "assert"
      ELSE IF StartsWith(pl, "<") THEN "insert" ELSE "both"

\* one turn of the loop of lines 68-82
MatchLoop ==
    /\ unit = "match_up"
    /\ mpc = "loop"
    /\ m < Len(merlin_label) /\ d < Len(phoneme_label)
    /\ LET branch == MatchBranch(merlin_label[m + 1], phoneme_label[d + 1])
       IN  IF branch = "assert"
             THEN /\ mpc' = "raised"
                  /\ merr' = <<phoneme_label[d + 1], merlin_label[m + 1]>>
                  /\ UNCHANGED <<m, d, timings>>
             ELSE IF branch = "insert"
             THEN /\ timings' = Append(timings, 0)
                  /\ d' = d + 1
                  /\ UNCHANGED <<m, mpc, merr>>
             ELSE /\ timings' = Append(timings, merlin_timings[m + 1])
                  /\ m' = m + 1
                  /\ d' = d + 1
                  /\ UNCHANGED <<mpc, merr>>
    /\ UNCHANGED <<unit, merlin_label, merlin_timings, phoneme_label, mres>>
    /\ UNCHANGED <<resampleVars, attnVars, storeVars, mainVars>>

\* The loop left with no check that the merlin labels are used up.
MatchLoopExitNoAssert ==
    /\ unit = "match_up"
    /\ mpc = "loop"
    /\ ~(m < Len(merlin_label) /\ d < Len(phoneme_label))
    /\ mpc' = "tail"
    /\ UNCHANGED <<unit, merlin_label, merlin_timings, phoneme_label, m, d,
                   timings, mres, merr>>
    /\ UNCHANGED <<resampleVars, attnVars, storeVars, mainVars>>

\* the loop's condition turning false, and the assertion of line 83
MatchLoopExit ==
    /\ unit = "match_up"
    /\ mpc = "loop"
    /\ ~(m < Len(merlin_label) /\ d < Len(phoneme_label))
    /\ IF m = Len(merlin_label)
         THEN mpc' = "tail" /\ merr' = merr
         ELSE mpc' = "raised" /\ merr' = <<"m==len(merlin_label)">>
    /\ UNCHANGED <<unit, merlin_label, merlin_timings, phoneme_label, m, d,
                   timings, mres>>
    /\ UNCHANGED <<resampleVars, attnVars, storeVars, mainVars>>

\* one turn of the loop of lines 84-86
MatchTail ==
    /\ unit = "match_up"
    /\ mpc = "tail"
    /\ d < Len(phoneme_label)
    /\ timings' = Append(timings, 0)
    /\ d' = d + 1
    /\ UNCHANGED <<unit, merlin_label, merlin_timings, phoneme_label, m, mpc,
                   mres, merr>>
    /\ UNCHANGED <<resampleVars, attnVars, storeVars, mainVars>>

\* A return that leaves the phoneme labels after the last merlin label
\* without a timing.
MatchReturnNoTail ==
    /\ unit = "match_up"
    /\ mpc = "tail"
    /\ mres' = RetArray(timings)
    /\ mpc' = "returned"
    /\ UNCHANGED <<unit, merlin_label, merlin_timings, phoneme_label, m, d,
                   timings, merr>>
    /\ UNCHANGED <<resampleVars, attnVars, storeVars, mainVars>>

\* line 87
MatchReturn ==
    /\ unit = "match_up"
    /\ mpc = "tail"
    /\ ~(d < Len(phoneme_label))
    /\ mres' = RetArray(timings)
    /\ mpc' = "returned"
    /\ UNCHANGED <<unit, merlin_label, merlin_timings, phoneme_label, m, d,
                   timings, merr>>
    /\ UNCHANGED <<resampleVars, attnVars, storeVars, mainVars>>

MerlinLabels == {"sil", "k"}
PhonemeLabels == {<<"<", ">">>, <<"k">>}

InitMatch ==
    /\ unit = "match_up"
    /\ IdleResample
    /\ IdleAttn
    /\ IdleStore
    /\ IdleMain
    /\ merlin_label \in SeqsUpTo(MerlinLabels, MaxSrc)
    /\ merlin_timings \in [1..Len(merlin_label) -> 0..MaxT]
    /\ phoneme_label \in SeqsUpTo(PhonemeLabels, MaxTgt)
    /\ m = 0
    /\ d = 0
    /\ timings = <<>>
    /\ mpc = "loop"
    /\ mres = Pending
    /\ merr = <<>>

NextMatch == MatchLoop \/ MatchLoopExit \/ MatchTail \/ MatchReturn

SpecMatch == InitMatch /\ [][NextMatch]_vars

(***************************************************************************)
(* Claims about match_up.                                                  *)
(***************************************************************************)

\* C2: one timing is emitted per advance of d, and what match_up returns
\* has exactly len(phoneme_label) elements, the phoneme labels left after
\* the last merlin label included.
C2_OutputLength ==
    unit = "match_up"
    => /\ Len(timings) = d
       /\ mpc = "returned"
            => /\ mres.kind = "array"
               /\ Len(mres.value) = Len(phoneme_label)

\* C2's case: match_up has returned, and the last phoneme label, which is
\* no boundary marker, got its zero after the merlin labels ran out.
C2_Witness ==
    /\ unit = "match_up"
    /\ mpc = "returned"
    /\ Len(merlin_label) = 1
    /\ merlin_timings[1] > 0
    /\ Len(phoneme_label) = 3
    /\ ~StartsWith(phoneme_label[3], "<")
    /\ mres.value[3] = 0

\* C3: in every turn of the walk, a merlin silence against a phoneme label
\* that is no boundary marker fails naming both labels and nothing is
\* returned; a boundary marker against a merlin label that is no silence
\* emits 0 and advances d alone; every other pair emits the merlin timing
\* and advances both cursors.
C3_StepCases ==
    [][/\ (unit = "match_up" /\ mpc = "raised")
            => (mpc' = "raised" /\ mres' = Pending)
       /\ (unit = "match_up" /\ mpc = "loop"
            /\ m < Len(merlin_label) /\ d < Len(phoneme_label))
          => LET silence == merlin_label[m + 1] \in {"pau", "sil", "skip"}
                 marker == /\ Len(phoneme_label[d + 1]) > 0
                           /\ Head(phoneme_label[d + 1]) = "<"
             IN  IF silence /\ ~marker
                   THEN /\ mpc' = "raised"
                        /\ merr' = <<phoneme_label[d + 1], merlin_label[m + 1]>>
                        /\ mres' = Pending
                   ELSE IF marker /\ ~silence
                   THEN /\ timings' = Append(timings, 0)
                        /\ d' = d + 1
                        /\ m' = m
                        /\ merlin_timings' = merlin_timings
                        /\ mpc' = "loop"
                   ELSE /\ timings' = Append(timings, merlin_timings[m + 1])
                        /\ d' = d + 1
                        /\ m' = m + 1
                        /\ mpc' = "loop"]_vars

\* C3's case: a boundary marker has met a merlin label that is no silence;
\* a zero was emitted and d alone advanced.
C3_Witness ==
    /\ unit = "match_up"
    /\ mpc = "loop"
    /\ Len(merlin_label) > 0
    /\ merlin_label[1] = "k"
    /\ merlin_timings[1] > 0
    /\ m = 0
    /\ d = 1
    /\ timings = <<0>>

\* out is src with zeros inserted: the entries of out at some increasing
\* positions are src, in order, and every other entry of out is 0
IsWithZerosInserted(out, src) ==
    \E pos \in [1..Len(src) -> 1..Len(out)] :
        /\ \A i \in 1..Len(src) : \A j \in 1..Len(src) : i < j => pos[i] < pos[j]
        /\ \A i \in 1..Len(src) : out[pos[i]] = src[i]
        /\ \A k \in 1..Len(out) : (\A i \in 1..Len(src) : pos[i] # k) => out[k] = 0

\* C10: when match_up returns, every merlin timing has been emitted once
\* and in order: the result sums to the sum of merlin_timings and is
\* merlin_timings with zeros inserted.  When the phoneme labels run out
\* before the merlin labels, match_up fails and returns nothing.
C10_DurationsConserved ==
    /\ (unit = "match_up" /\ mpc = "returned")
       => /\ m = Len(merlin_label)
          /\ Sum(mres.value) = Sum(merlin_timings)
          /\ IsWithZerosInserted(mres.value, merlin_timings)
    /\ (unit = "match_up" /\ mpc \in {"tail", "returned", "raised"}
          /\ m < Len(merlin_label))
       => (mpc = "raised" /\ mres = Pending)

\* C10's case: match_up has returned with a zero inserted between two
\* merlin timings that differ.
C10_Witness ==
    /\ unit = "match_up"
    /\ mpc = "returned"
    /\ merlin_timings = <<1, 2>>
    /\ mres.value = <<1, 0, 2>>

\* the other half of C10's case: the phoneme labels ran out first and
\* match_up failed on line 83
C10_FailureReached ==
    /\ unit = "match_up"
    /\ mpc = "raised"
    /\ d = Len(phoneme_label)
    /\ m < Len(merlin_label)
    /\ merr = <<"m==len(merlin_label)">>

(***************************************************************************)
(* durations_to_attention_matrix(durations)                                *)
(*                                                                         *)
(* A is a sequence of nframes rows of nphones entries.  Row r and column c *)
(* of the model are row r - 1 and column c - 1 of the array, so the slice  *)
(* A[start:end, i] is the rows start + 1 .. end of column i + 1.           *)
(***************************************************************************)

\* np.zeros((rows, cols))
Zeros(rows, cols) == [r \in 1..rows |-> [c \in 1..cols |-> 0]]

\* A[from:to, col] = 1.0 (a slice takes the rows the array has)
SetSlice(M, from, to, col) ==
    [r \in DOMAIN M |->
        [c \in DOMAIN M[r] |->
            IF c = col + 1 /\ from < r /\ r <= to THEN 1 ELSE M[r][c]]]

\* A.sum(axis=1)
RowSums(M) == [r \in DOMAIN M |-> Sum(M[r])]

\* A.sum(axis=0)
ColSums(M, cols) ==
    [c \in 1..cols |-> Cardinality({r \in DOMAIN M : M[r][c] = 1})]

\* x.all(): no entry of x is zero
All(x) == \A k \in DOMAIN x : x[k] # 0

\* lines 135-138
AttnAlloc ==
    /\ unit = "durations_to_attention_matrix"
    /\ apc = "call"
    /\ nphones' = Len(durations)
    /\ nframes' = Sum(durations)
    /\ A' = Zeros(nframes', nphones')
    /\ start' = 0
    /\ ai' = 0
    /\ apc' = "loop"
    /\ UNCHANGED <<unit, durations>>
    /\ UNCHANGED <<resampleVars, matchVars, storeVars, mainVars>>

\* A loop that never moves start on.
AttnFillKeepsStart ==
    /\ unit = "durations_to_attention_matrix"
    /\ apc = "loop"
    /\ ai < Len(durations)
    /\ LET end == start + durations[ai + 1]
       IN  /\ A' = SetSlice(A, start, end, ai)
           /\ start' = start
    /\ ai' = ai + 1
    /\ UNCHANGED <<unit, durations, nphones, nframes, apc>>
    /\ UNCHANGED <<resampleVars, matchVars, storeVars, mainVars>>

\* one turn of the loop of lines 139-142
AttnFill ==
    /\ unit = "durations_to_attention_matrix"
    /\ apc = "loop"
    /\ ai < Len(durations)
    /\ LET end == start + durations[ai + 1]
       IN  /\ A' = SetSlice(A, start, end, ai)
           /\ start' = end
    /\ ai' = ai + 1
    /\ UNCHANGED <<unit, durations, nphones, nframes, apc>>
    /\ UNCHANGED <<resampleVars, matchVars, storeVars, mainVars>>

\* lines 143-145: `A.sum(axis=1).all() == 1.0` compares the boolean with 1.0
\* and holds when it is True; `A.sum(axis=0).all() == durations.all()`
\* compares two booleans
AttnReturn ==
    /\ unit = "durations_to_attention_matrix"
    /\ apc = "loop"
    /\ ai = Len(durations)
    /\ IF All(RowSums(A)) /\ (All(ColSums(A, nphones)) <=> All(durations))
         THEN apc' = "returned"
         ELSE apc' = "raised"
    /\ UNCHANGED <<unit, durations, nphones, nframes, A, start, ai>>
    /\ UNCHANGED <<resampleVars, matchVars, storeVars, mainVars>>

InitAttn ==
    /\ unit = "durations_to_attention_matrix"
    /\ IdleResample
    /\ IdleMatch
    /\ IdleStore
    /\ IdleMain
    /\ durations \in SeqsUpTo(0..MaxPhoneDur, MaxPhones)
    /\ nphones = 0
    /\ nframes = 0
    /\ A = <<>>
    /\ start = 0
    /\ ai = 0
    /\ apc = "call"

NextAttn == AttnAlloc \/ AttnFill \/ AttnReturn

SpecAttn == InitAttn /\ [][NextAttn]_vars

(***************************************************************************)
(* Claims about durations_to_attention_matrix.                             *)
(***************************************************************************)

Alphabet ==
    <<"\n", " ", "0", "1", "2", "3", "4", "5", "6", "7", "8", "9", "<", ">",
      "a", "b", "h", "i", "k", "|">>

Ord(ch) == CHOOSE i \in 1..Len(Alphabet) : Alphabet[i] = ch

\* s < t for two strings, as sorted() compares them
RECURSIVE StrLess(_, _)
StrLess(s, t) ==
    IF Len(t) = 0 THEN FALSE
    ELSE IF Len(s) = 0 THEN TRUE
    ELSE IF Head(s) # Head(t) THEN Ord(Head(s)) < Ord(Head(t))
    ELSE StrLess(Tail(s), Tail(t))

\* sorted(keys)
RECURSIVE Sorted(_)
Sorted(keys) ==
    IF keys = {} THEN <<>>
    ELSE LET least == CHOOSE k \in keys : \A o \in keys \ {k} : StrLess(k, o)
         IN  <<least>> \o Sorted(keys \ {least})

\* sep.join(parts)
RECURSIVE Join(_, _)
Join(parts, sep) ==
    IF Len(parts) = 0 THEN <<>>
    ELSE IF Len(parts) = 1 THEN parts[1]
    ELSE parts[1] \o sep \o Join(Tail(parts), sep)

\* str(n) for n >= 0
RECURSIVE Str(_)
Str(n) ==
    IF n < 10 THEN <<Alphabet[n + 3]>>
    ELSE Str(n \div 10) \o <<Alphabet[(n % 10) + 3]>>

\* the line of lines 94-101 for one record that has a duration
TranscriptLine(base, rec) ==
    base \o <<"|", "|">> \o rec.text \o <<"|">> \o Join(rec.phones, <<" ">>)
         \o <<"|", "|">> \o Join([k \in 1..Len(rec.duration) |-> Str(rec.duration[k])], <<" ">>)

\* lines 93-102 over the sorted bases: records without a duration are skipped
RECURSIVE WrittenLines(_, _)
WrittenLines(recs, bases) ==
    IF Len(bases) = 0 THEN <<>>
    ELSE IF "duration" \notin DOMAIN recs[Head(bases)]
      THEN WrittenLines(recs, Tail(bases))
      ELSE TranscriptLine(Head(bases), recs[Head(bases)]) \o <<"\n">>
             \o WrittenLines(recs, Tail(bases))

\* write_transcript, lines 89-104
WriteTranscript ==
    /\ unit = "transcript"
    /\ tpc = "write"
    /\ file' = WrittenLines(texts, Sorted(DOMAIN texts))
    /\ tpc' = "read"
    /\ UNCHANGED <<unit, texts, rtexts, transcript>>
    /\ UNCHANGED <<resampleVars, matchVars, attnVars, mainVars>>

\* readlines(): the lines of a string, each with its newline
RECURSIVE ReadLines(_)
ReadLines(s) ==
    IF Len(s) = 0 THEN <<>>
    ELSE IF \E i \in 1..Len(s) : s[i] = "\n"
      THEN LET i == CHOOSE i \in 1..Len(s) :
                        s[i] = "\n" /\ \A j \in 1..(i - 1) : s[j] # "\n"
           IN  <<SubSeq(s, 1, i)>> \o ReadLines(SubSeq(s, i + 1, Len(s)))
      ELSE <<s>>

\* s.strip(chars)
RECURSIVE Strip(_, _)
Strip(s, chars) ==
    IF Len(s) = 0 THEN s
    ELSE IF Head(s) \in chars THEN Strip(Tail(s), chars)
    ELSE IF Last(s) \in chars THEN Strip(SubSeq(s, 1, Len(s) - 1), chars)
    ELSE s

Whitespace == {" ", "\n"}

\* s.split(ch)
RECURSIVE Split(_, _)
Split(s, ch) ==
    IF \E i \in 1..Len(s) : s[i] = ch
      THEN LET i == CHOOSE i \in 1..Len(s) :
                        s[i] = ch /\ \A j \in 1..(i - 1) : s[j] # ch
           IN  <<SubSeq(s, 1, i - 1)>> \o Split(SubSeq(s, i + 1, Len(s)), ch)
      ELSE <<s>>

\* s with every run of whitespace made one space
RECURSIVE SqueezeSpace(_)
SqueezeSpace(s) ==
    IF Len(s) = 0 THEN s
    ELSE IF Head(s) \in Whitespace
      THEN IF Len(s) > 1 /\ s[2] \in Whitespace
             THEN SqueezeSpace(Tail(s))
             ELSE <<" ">> \o SqueezeSpace(Tail(s))
      ELSE <<Head(s)>> \o SqueezeSpace(Tail(s))

\* re.split('\s+', s)
ReSplitSpace(s) == Split(SqueezeSpace(s), " ")

\* lines 107-109
ReadStrip ==
    /\ unit = "transcript"
    /\ tpc = "read"
    /\ LET raw == ReadLines(file)
           stripped == [k \in 1..Len(raw) |-> Strip(raw[k], {"\n", " ", "|"})]
           NotEmpty(t) == t # <<>>
       IN  rtexts' = SelectSeq(stripped, NotEmpty)
    /\ tpc' = "split"
    /\ UNCHANGED <<unit, texts, file, transcript>>
    /\ UNCHANGED <<resampleVars, matchVars, attnVars, mainVars>>

\* lines 110-113
ReadSplit ==
    /\ unit = "transcript"
    /\ tpc = "split"
    /\ rtexts' = [k \in 1..Len(rtexts) |-> Split(Strip(rtexts[k], Whitespace), "|")]
    /\ IF \A k \in 1..Len(rtexts') : Len(rtexts'[k]) = Len(rtexts'[1])
         THEN tpc' = "build"
         ELSE tpc' = "raised"
    /\ UNCHANGED <<unit, texts, file, transcript>>
    /\ UNCHANGED <<resampleVars, matchVars, attnVars, mainVars>>

\* lines 117-121 over the lines from the first on: a later line of the same
\* base replaces an earlier one
RECURSIVE Entries(_, _)
Entries(lines, acc) ==
    IF Len(lines) = 0 THEN acc
    ELSE LET text == Head(lines)
             base == text[1]
             entry == [phones |-> ReSplitSpace(text[4]), text |-> text[3]]
         IN  Entries(Tail(lines),
                     [b \in DOMAIN acc \cup {base} |->
                         IF b = base THEN entry ELSE acc[b]])

\* lines 115-123, with the assertion of line 118
ReadBuild ==
    /\ unit = "transcript"
    /\ tpc = "build"
    /\ IF \E k \in 1..Len(rtexts) : ~(Len(rtexts[k]) >= 4)
         THEN tpc' = "raised" /\ transcript' = transcript
         ELSE tpc' = "returned" /\ transcript' = Entries(rtexts, <<>>)
    /\ UNCHANGED <<unit, texts, file, rtexts>>
    /\ UNCHANGED <<resampleVars, matchVars, attnVars, mainVars>>

Bases == {<<"a">>, <<"b">>}
RecTexts == {<<"h", "i">>, <<>>}
RecPhones == {<<"k">>, <<"<", ">">>}
RecDurations == {0, 12}

\* The records main_work hands to write_transcript: the phones are those
\* read_transcript made (line 120, at least one), and a duration has passed
\* the assertion of line 224, one timing per phone.
Records ==
    LET WithoutDuration ==
            [text : RecTexts, phones : SeqsUpTo(RecPhones, MaxRecPhones) \ {<<>>}]
    IN  WithoutDuration
        \cup UNION {{[text |-> r.text, phones |-> r.phones, duration |-> dur] :
                        dur \in [1..Len(r.phones) -> RecDurations]} :
                    r \in WithoutDuration}

InitStore ==
    /\ unit = "transcript"
    /\ IdleResample
    /\ IdleMatch
    /\ IdleAttn
    /\ IdleMain
    /\ \E keys \in SUBSET Bases : texts \in [keys -> Records]
    /\ file = <<>>
    /\ rtexts = <<>>
    /\ transcript = <<>>
    /\ tpc = "write"

NextStore == WriteTranscript \/ ReadStrip \/ ReadSplit \/ ReadBuild

SpecStore == InitStore /\ [][NextStore]_vars

(***************************************************************************)
(* Claims about the transcript functions.                                  *)
(***************************************************************************)

\* Supporting lemma: what is read back of a record that had a duration is
\* its base, its phones and its text, and no duration.
PhonesAndTextReadBack ==
    (unit = "transcript" /\ tpc \in {"returned", "raised"})
    => /\ tpc = "returned"
       /\ \A base \in DOMAIN texts :
            "duration" \in DOMAIN texts[base]
            => /\ base \in DOMAIN transcript
               /\ transcript[base].phones = texts[base].phones
               /\ transcript[base].text = texts[base].text
               /\ DOMAIN transcript[base] = {"phones", "text"}

\* C6: reading back what write_transcript(texts, duration=True) wrote gives,
\* for every record that had a duration, an entry of the same base with the
\* same phones, the same durations and the same text.
C6_RoundTrip ==
    (unit = "transcript" /\ tpc \in {"returned", "raised"})
    => /\ tpc = "returned"
       /\ \A base \in DOMAIN texts :
            "duration" \in DOMAIN texts[base]
            => /\ base \in DOMAIN transcript
               /\ transcript[base].phones = texts[base].phones
               /\ transcript[base].text = texts[base].text
               /\ "duration" \in DOMAIN transcript[base]
               /\ transcript[base].duration = texts[base].duration

(***************************************************************************)
(* main_work, lines 193-233.                                               *)
(*                                                                         *)
(* A label file is a number; lab[f] is the lengths array that              *)
(* merlin_state_label_to_monophones reads from it, mel_dctts[f] and mel[f] *)
(* are the frame counts of its two mel arrays.  guides is the set of       *)
(* attention guides saved and outfile_written tells whether                *)
(* train_durations_dctts.csv has been written.  The exit() of line 218     *)
(* ends the process in the first turn of the loop, so no step of lines     *)
(* 219-233 is ever taken and none is an action here.                       *)
(***************************************************************************)

FromRate == 10          \* 5.0 msec
ToRateDctts == 100      \* 50.0 msec
ToRateMel == 25         \* 12.5 msec
MsecPerDcttsFrame == 100  \* mel_features.shape[0] * 50
MsecPerMelFrame == 25     \* mel_features_12.shape[1] * 12.5

\* lines 193-211: the loop takes the next label file and loads its arrays
MainNextFile ==
    /\ unit = "main_work"
    /\ main_pc = "for"
    /\ \E f \in todo :
         /\ labfile' = f
         /\ todo' = todo \ {f}
    /\ main_pc' = "resample"
    /\ UNCHANGED <<unit, labfiles, lab, mel_dctts, mel, resampled_lengths,
                   resampled_lengths_12, guides, outfile_written>>
    /\ UNCHANGED <<resampleVars, matchVars, attnVars, storeVars>>

\* line 212; an exception of resample_timings is caught nowhere
MainResample ==
    /\ unit = "main_work"
    /\ main_pc = "resample"
    /\ LET audio_msec_length == mel_dctts[labfile] * MsecPerDcttsFrame
           r == ResampleTimings(lab[labfile], FromRate, ToRateDctts,
                                Some(audio_msec_length))
       IN  IF r.kind \in {"AssertionError", "IndexError"}
             THEN /\ main_pc' = "aborted"
                  /\ UNCHANGED resampled_lengths
             ELSE /\ resampled_lengths' = r
                  /\ main_pc' = "resample_12"
    /\ UNCHANGED <<unit, labfiles, lab, mel_dctts, mel, todo, labfile,
                   resampled_lengths_12, guides, outfile_written>>
    /\ UNCHANGED <<resampleVars, matchVars, attnVars, storeVars>>

\* line 215
MainResample12 ==
    /\ unit = "main_work"
    /\ main_pc = "resample_12"
    /\ LET audio_msec_length_12 == mel[labfile] * MsecPerMelFrame
           r == ResampleTimings(lab[labfile], FromRate, ToRateMel,
                                Some(audio_msec_length_12))
       IN  IF r.kind \in {"AssertionError", "IndexError"}
             THEN /\ main_pc' = "aborted"
                  /\ UNCHANGED resampled_lengths_12
             ELSE /\ resampled_lengths_12' = r
                  /\ main_pc' = "exit"
    /\ UNCHANGED <<unit, labfiles, lab, mel_dctts, mel, todo, labfile,
                   resampled_lengths, guides, outfile_written>>
    /\ UNCHANGED <<resampleVars, matchVars, attnVars, storeVars>>

\* line 218: exit()
MainExit ==
    /\ unit = "main_work"
    /\ main_pc = "exit"
    /\ main_pc' = "exited"
    /\ UNCHANGED <<unit, labfiles, lab, mel_dctts, mel, todo, labfile,
                   resampled_lengths, resampled_lengths_12, guides,
                   outfile_written>>
    /\ UNCHANGED <<resampleVars, matchVars, attnVars, storeVars>>

\* the lengths arrays of the label files: one that is not divisible by
\* 5 msec, and divisible ones of 50 and 100 msec in all
LabLengths == {<<5>>, <<100>>, <<100, 100>>}

\* label_state_align/ is not empty (lines 183-185)
InitMain ==
    /\ unit = "main_work"
    /\ IdleResample
    /\ IdleMatch
    /\ IdleAttn
    /\ IdleStore
    /\ \E n \in 1..MaxFiles : labfiles = 1..n
    /\ lab \in [labfiles -> LabLengths]
    /\ mel_dctts \in [labfiles -> 0..MaxMelDctts]
    /\ mel \in [labfiles -> 0..MaxMel]
    /\ todo = labfiles
    /\ labfile = 0
    /\ resampled_lengths = Pending
    /\ resampled_lengths_12 = Pending
    /\ guides = {}
    /\ outfile_written = FALSE
    /\ main_pc = "for"

NextMain == MainNextFile \/ MainResample \/ MainResample12 \/ MainExit

SpecMain == InitMain /\ [][NextMain]_vars

(***************************************************************************)
(* Claims about main_work.                                                 *)
(***************************************************************************)

\* what line 212 and line 215 give on label file f
Resampled(f) ==
    ResampleTimings(lab[f], FromRate, ToRateDctts,
                    Some(mel_dctts[f] * MsecPerDcttsFrame))

Resampled12(f) ==
    ResampleTimings(lab[f], FromRate, ToRateMel, Some(mel[f] * MsecPerMelFrame))

\* the divisibility failure on label file f
DivisibilityFailure(f) == Resampled(f) = RetNone

\* a failed assertion of resample_timings on label file f, which is meant
\* to be fatal
FatalFailure(f) ==
    \/ Resampled(f).kind \notin {"None", "array"}
    \/ Resampled12(f).kind \notin {"None", "array"}

\* C7: a failure on one label file does not stop the batch.  In a
\* directory where no file runs into a fatal assertion of resample_timings,
\* by the time main_work ends the loop has taken every label file, the
\* attention guide of every file without a divisibility failure is saved,
\* and the duration transcript has been written.
C7_BatchCompletes ==
    (/\ unit = "main_work"
     /\ main_pc \in {"exited", "aborted"}
     /\ \A f \in labfiles : ~FatalFailure(f))
    => /\ todo = {}
       /\ \A f \in labfiles : DivisibilityFailure(f) \/ f \in guides
       /\ outfile_written

(***************************************************************************)
(* The module as a whole: one of its functions is run.                     *)
(***************************************************************************)
Init == InitResample \/ InitMatch \/ InitAttn \/ InitStore \/ InitMain

Next == NextResample \/ NextMatch \/ NextAttn \/ NextStore \/ NextMain

Spec == Init /\ [][Next]_vars

=============================================================================
